---------------------------- MODULE Spec2Model ----------------------------
(***************************************************************************)
(* NeuriScout: the Deep Dive chat panel (frontend/src/app/components/      *)
(* ChatPanel.tsx), the API client (frontend/src/lib/api.ts), and the       *)
(* backend's retrieval executor and Deep-Dive session cache, whose code is *)
(* not part of the frontend sources and is modelled from the design        *)
(* document (sections 4.2 and 4.4).                                        *)
(*                                                                         *)
(* The specifications share the variables:                                 *)
(*   Spec          one mounted chat panel and its chat calls in flight;    *)
(*   SpecCache     the backend serving chat turns through the session      *)
(*                 cache;                                                  *)
(*   SpecSearch    the backend answering requests of the search page;      *)
(*   SpecPage      the search page's sliders, filters and requests;        *)
(*   SpecModels    key storage and model discovery of the chat panel;      *)
(*   SpecSilent    the client with a backend that never answers;           *)
(*   SpecAuth      one sign-in attempt through authorize;                  *)
(*   SpecBookmarks the bookmarks provider and its storage;                 *)
(*   SpecDeepDive  the Deep Dive selection across page loads;              *)
(*   SpecPanel     the chat panel opened and closed over the page.         *)
(***************************************************************************)
EXTENDS Integers, Sequences, FiniteSets, TLC

VARIABLES
    \* ---- ChatPanel component state (ChatPanel.tsx:25-42) ----
    messages,            \* useState<Message[]>([])
    input,               \* useState('')
    loading,             \* useState(false)
    model,               \* useState<'openai' | 'gemini'>('gemini')
    showApiKeyManager,   \* useState(false)
    apiKeys,             \* useState({ openai: '', gemini: '' })
    selectedGeminiModel, \* useState<string>('')
    selectedOpenaiModel, \* useState<string>('')
    systemPrompt,        \* useState<string>(...)
    selectedPapers,      \* the panel's prop: the Deep Dive selection
    localStore,          \* the browser's localStorage, user-scoped keys
    \* ---- chat calls of the panel ----
    chatCalls,           \* calls of chatWithPapers whose promise is pending
    chatLog,             \* every POST /chat issued so far, with its outcome
    \* ---- backend: Deep-Dive session cache (design 4.4) ----
    cache,               \* (session, provider, paper) -> entry
    now,                 \* the clock the expiry is measured against
    turns,               \* the chat turns the backend is serving
    uploads,             \* per key: the uploads started so far
    \* ---- backend: retrieval executor (design 4.2) and the search page ----
    corpus,              \* the corpus items in insertion order
    searchCall,          \* the search request in flight, or NoCall
    papers,              \* the page's result list (useState<Paper[]>([]))
    lastSearch,          \* the last answered request and the executor's answer
    lastOutcome,         \* how the last search call ended: "none", "ok", "failed"
    \* ---- search page controls (app/page.tsx, Home) ----
    limit,               \* useState(10)
    threshold,           \* useState(0.6), in hundredths
    filters,             \* useState({ affiliation: [], author: [], ... })
    moved,               \* the sliders the user has moved so far
    filterOptions,       \* useState({ affiliations: [], authors: [], sessions: [] })
    filtersFetch,        \* the mount effect's getFilters() call
    \* ---- ChatPanel model discovery (ChatPanel.tsx:32-36) ----
    geminiModels,        \* useState<GeminiModel[]>([])
    openaiModels,        \* useState<GeminiModel[]>([])
    loadingModels,       \* useState(false)
    modelCalls,          \* discovery calls whose promise is pending
    modelLog,            \* every discovery call issued so far, with its outcome
    \* ---- sign-in (api/auth/[...nextauth]/route.ts) ----
    credentials,         \* the credentials the sign-in form submits
    signIn,              \* the sign-in attempt: "none", "submitted", "done"
    authUser,            \* what authorize returned: a user or null
    \* ---- BookmarksProvider (contexts/BookmarksContext.tsx) ----
    bookmarks,           \* useState<Paper[]>([])
    isLoaded,            \* useState(false)
    bookmarkStore,       \* localStorage item 'neuriscout_bookmarks'
    bookmarkOp,          \* the last call of the context's functions
    \* ---- Home: the Deep Dive selection (route.ts:53-88, 128-177) ----
    deepDivePapers,      \* useState<Paper[]>([])
    deepDiveStore,       \* localStorage: 'neuriscout.deepDivePapers', 'deepDiveBasket'
    home,                \* the page: "closed", "effects" (mount effects ran,
                         \* the re-render they scheduled is due), "ready"
    pendingPapers,       \* the value the load effect passed to setDeepDivePapers
    storedAtMount,       \* the selection storage held when the page mounted
    edited,              \* whether a user operation has set the selection since
    pageLoads,           \* how often the page has been mounted
    deepDiveOp,          \* the last Deep Dive operation
    \* ---- Home: the chat panel's mount (route.ts:70, 494-499) ----
    showChat,            \* useState(false)
    abandoned            \* calls of chat panels that were closed meanwhile

chatVars   == <<messages, input, loading, model, showApiKeyManager, apiKeys,
                selectedGeminiModel, selectedOpenaiModel, systemPrompt,
                selectedPapers, localStore, chatCalls, chatLog>>
cacheVars  == <<cache, now, turns, uploads>>
searchVars == <<corpus, searchCall, papers, lastSearch, lastOutcome>>
pageVars   == <<limit, threshold, filters, moved, filterOptions, filtersFetch>>
modelVars  == <<geminiModels, openaiModels, loadingModels, modelCalls, modelLog>>
authVars   == <<credentials, signIn, authUser>>
bookVars   == <<bookmarks, isLoaded, bookmarkStore, bookmarkOp>>
deepVars   == <<deepDivePapers, deepDiveStore, home, pendingPapers, storedAtMount,
                edited, pageLoads, deepDiveOp>>
panelVars  == <<showChat, abandoned>>
homeVars   == <<authVars, bookVars, deepVars, panelVars>>
vars       == <<chatVars, cacheVars, searchVars, pageVars, modelVars, homeVars>>

(***************************************************************************)
(* Bounds of the model.                                                    *)
(***************************************************************************)
MaxTurns == 2          \* chat submissions of one panel

\* Texts the user can type: JavaScript strings as sequences of characters.
InputTexts == { <<>>, <<" ">>, <<" ", "a">> }

UNDEFINED == "undefined"   \* JavaScript's undefined

(***************************************************************************)
(* String.prototype.trim, used by handleSend's guard and the button.       *)
(***************************************************************************)
RECURSIVE TrimStart(_)
TrimStart(s) ==
    IF s = <<>> THEN s
    ELSE IF Head(s) = " " THEN TrimStart(Tail(s)) ELSE s

RECURSIVE TrimEnd(_)
TrimEnd(s) ==
    IF s = <<>> THEN s
    ELSE IF s[Len(s)] = " " THEN TrimEnd(SubSeq(s, 1, Len(s) - 1)) ELSE s

Trim(s) == TrimEnd(TrimStart(s))

\* JavaScript's a || b on strings: the empty string is falsy.
OrElse(a, b) == IF a = "" \/ a = UNDEFINED THEN b ELSE a

IsPrefix(s, t) == Len(s) <= Len(t) /\ SubSeq(t, 1, Len(s)) = s

(***************************************************************************)
(* The Deep Dive selections a panel can be opened with.                    *)
(***************************************************************************)
PaperA == [id |-> "A", title |-> "tA", openreview_url |-> "orA", paper_url |-> "puA"]
PaperB == [id |-> "B", title |-> "tB", openreview_url |-> "",    paper_url |-> "puB"]
Selections == { <<PaperA, PaperB>> }

Providers == {"openai", "gemini"}

DEFAULT_PROMPT == "rigorous research assistant"

\* The user-scoped localStorage items of the panel (getItem / setItem).
StorageKeys == {"system_prompt", "openai_key", "gemini_key", "openai_model", "gemini_model"}
Prompts == {"custom prompt"}

(***************************************************************************)
(* Message (ChatPanel.tsx:15-19).  content is a sequence: the characters   *)
(* of the question for a user entry, one token for an assistant entry.     *)
(* isError is FALSE where the source leaves the optional field out.  turn  *)
(* is the submission the entry belongs to; the source does not store it.   *)
(***************************************************************************)
Message(role, content, isError, turn) ==
    [role |-> role, content |-> content, isError |-> isError, turn |-> turn]

\* setMessages(prev => [...prev, m])
AppendMessageResetting(prev, m) == <<m>>

AppendMessage(prev, m) == Append(prev, m)

(***************************************************************************)
(* What a POST /chat can come back with (api.ts chatWithPapers, 59-70).    *)
(*   answer        response.ok, body {answer}                              *)
(*   error_body    response.ok, body {error, status}                       *)
(*   http_error    !response.ok: chatWithPapers throws                     *)
(*   network_error fetch (or response.json()) rejects                      *)
(***************************************************************************)
Outcomes == {"answer", "error_body", "http_error", "network_error"}

\* The outcomes on which chatWithPapers returns instead of throwing.
Returns(o) == o \in {"answer", "error_body"}

\* res.answer of the returned body: the body {error, status} has no answer.
AnswerOf(o) == IF o = "answer" THEN <<"ANSWER">> ELSE <<UNDEFINED>>

\* error.message || "Error: Could not fetch answer. ..." (ChatPanel.tsx:192)
ErrorMessageOf(o) ==
    IF o = "http_error" THEN <<"Failed to chat with papers">>
    ELSE <<"Failed to fetch">>

(***************************************************************************)
(* chatWithPapers (api.ts:50-71): the body of the one POST /chat it sends. *)
(***************************************************************************)
PaperItems(sel) ==
    [i \in 1..Len(sel) |->
        [url |-> OrElse(sel[i].openreview_url, sel[i].paper_url),
         title |-> sel[i].title]]

ChatRequestWithOpenAIKey(id, userMsg) ==
    [id            |-> id,
     papers        |-> PaperItems(selectedPapers),
     question      |-> userMsg,
     model         |-> model,
     api_key       |-> OrElse(apiKeys["openai"], UNDEFINED),
     gemini_model  |-> IF model = "gemini" THEN selectedGeminiModel ELSE UNDEFINED,
     openai_model  |-> IF model = "openai" THEN selectedOpenaiModel ELSE UNDEFINED,
     system_prompt |-> systemPrompt]

ChatRequest(id, userMsg) ==
    [id            |-> id,
     papers        |-> PaperItems(selectedPapers),
     question      |-> userMsg,
     model         |-> model,
     api_key       |-> OrElse(apiKeys[model], UNDEFINED),
     gemini_model  |-> IF model = "gemini" THEN selectedGeminiModel ELSE UNDEFINED,
     openai_model  |-> IF model = "openai" THEN selectedOpenaiModel ELSE UNDEFINED,
     system_prompt |-> systemPrompt]

\* The fetches one call of chatWithPapers makes: one POST, no retry.
chatWithPapersRetrying(req) ==
    << [req |-> req, outcome |-> "pending"], [req |-> req, outcome |-> "pending"] >>

chatWithPapers(req) == << [req |-> req, outcome |-> "pending"] >>

(***************************************************************************)
(* handleSend (ChatPanel.tsx:163-188), up to its await.                    *)
(***************************************************************************)
handleSendClearingSelection ==
    IF Trim(input) = <<>>
    THEN UNCHANGED vars
    ELSE LET id  == Len(chatLog) + 1
             req == ChatRequest(id, input)
         IN /\ Len(chatLog) < MaxTurns
            /\ messages' = AppendMessage(messages, Message("user", input, FALSE, id))
            /\ input' = <<>>
            /\ loading' = TRUE
            /\ chatCalls' = chatCalls \cup {req}
            /\ chatLog' = chatLog \o chatWithPapers(req)
            /\ deepDivePapers' = <<>>
            /\ UNCHANGED <<model, showApiKeyManager, apiKeys, selectedGeminiModel,
                           selectedOpenaiModel, systemPrompt, selectedPapers,
                           localStore, cacheVars, searchVars, pageVars, modelVars,
                           authVars, bookVars, panelVars, deepDiveStore, home,
                           pendingPapers, storedAtMount, edited, pageLoads, deepDiveOp>>

handleSend ==
    IF Trim(input) = <<>>
    THEN UNCHANGED vars
    ELSE LET id  == Len(chatLog) + 1
             req == ChatRequest(id, input)
         IN /\ Len(chatLog) < MaxTurns
            /\ messages' = AppendMessage(messages, Message("user", input, FALSE, id))
            /\ input' = <<>>
            /\ loading' = TRUE
            /\ chatCalls' = chatCalls \cup {req}
            /\ chatLog' = chatLog \o chatWithPapers(req)
            /\ UNCHANGED <<model, showApiKeyManager, apiKeys, selectedGeminiModel,
                           selectedOpenaiModel, systemPrompt, selectedPapers,
                           localStore, cacheVars, searchVars, pageVars, modelVars, homeVars>>

\* The send button, disabled={loading || !input.trim()} (ChatPanel.tsx:474-480).
SubmitButton ==
    /\ ~loading
    /\ Trim(input) # <<>>
    /\ handleSend

\* Enter without Shift in the textarea (ChatPanel.tsx:464-469).
EnterKey == handleSend

\* The textarea's onChange (ChatPanel.tsx:463).
SetInput(v) ==
    /\ input' = v
    /\ UNCHANGED <<messages, loading, model, showApiKeyManager, apiKeys,
                   selectedGeminiModel, selectedOpenaiModel, systemPrompt,
                   selectedPapers, localStore, chatCalls, chatLog,
                   cacheVars, searchVars, pageVars, modelVars, homeVars>>

(***************************************************************************)
(* handleSend after its await (ChatPanel.tsx:189-201): the call c settles  *)
(* with outcome o.                                                         *)
(***************************************************************************)
Settled(log, c, o) ==
    [i \in 1..Len(log) |->
        IF log[i].req = c /\ log[i].outcome = "pending"
        THEN [log[i] EXCEPT !.outcome = o] ELSE log[i]]

ChatSettle(c, o) ==
    /\ c \in chatCalls
    /\ chatCalls' = chatCalls \ {c}
    /\ chatLog' = Settled(chatLog, c, o)
    /\ IF Returns(o)
       THEN /\ messages' = AppendMessage(messages,
                               Message("assistant", AnswerOf(o), FALSE, c.id))
            /\ UNCHANGED showApiKeyManager
       ELSE /\ messages' = AppendMessage(messages,
                               Message("assistant", ErrorMessageOf(o), TRUE, c.id))
            /\ showApiKeyManager' = TRUE
    /\ loading' = FALSE
    /\ UNCHANGED <<input, model, apiKeys, selectedGeminiModel, selectedOpenaiModel,
                   systemPrompt, selectedPapers, localStore, cacheVars, searchVars, pageVars, modelVars, homeVars>>

(***************************************************************************)
(* The header's provider buttons and the settings modal.                   *)
(***************************************************************************)
\* onClick={() => setModel('openai' | 'gemini')} (ChatPanel.tsx:223-234)
setModel(m) ==
    /\ model' = m
    /\ UNCHANGED <<messages, input, loading, showApiKeyManager, apiKeys,
                   selectedGeminiModel, selectedOpenaiModel, systemPrompt,
                   selectedPapers, localStore, chatCalls, chatLog,
                   cacheVars, searchVars, pageVars, modelVars, homeVars>>

\* setShowApiKeyManager(true | false) (ChatPanel.tsx:237, 265, 376, 427)
setShowApiKeyManager(b) ==
    /\ showApiKeyManager' = b
    /\ UNCHANGED <<messages, input, loading, model, apiKeys,
                   selectedGeminiModel, selectedOpenaiModel, systemPrompt,
                   selectedPapers, localStore, chatCalls, chatLog,
                   cacheVars, searchVars, pageVars, modelVars, homeVars>>

\* The system prompt editor's onChange (ChatPanel.tsx:355-358).
setSystemPrompt(p) ==
    /\ showApiKeyManager
    /\ systemPrompt' = p
    /\ localStore' = [localStore EXCEPT !["system_prompt"] = p]
    /\ UNCHANGED <<messages, input, loading, model, showApiKeyManager, apiKeys,
                   selectedGeminiModel, selectedOpenaiModel, selectedPapers,
                   chatCalls, chatLog, cacheVars, searchVars, pageVars, modelVars, homeVars>>

(***************************************************************************)
(* Credentials and model discovery (ChatPanel.tsx:72-119, 274-330;         *)
(* api.ts:93-119).                                                         *)
(***************************************************************************)
MaxModelCalls == 2     \* discovery calls of one panel

\* The key texts the user enters for a provider; the empty text clears it.
KeyTexts(provider) ==
    IF provider = "openai" THEN {"", "sk-1"} ELSE {"", "AIza-1", "AIza-2"}

\* The model lists the backend returns: what the provider lists for the
\* key (listModels(apiKey), design 4.3).
ModelList(provider, key) ==
    IF provider = "openai" THEN << [name |-> "gpt-a"] >>
    ELSE IF key = "AIza-2" THEN << [name |-> "gemini-a"] >>
    ELSE << [name |-> "gemini-a"], [name |-> "gemini-b"] >>

(* What a discovery call can come back with:                               *)
(*   models       response.ok, body {models} with a non-empty list         *)
(*   empty        response.ok, body {models: []}                           *)
(*   error_value  response.ok, body {error} (the invalid key)              *)
(*   throws       !response.ok or fetch rejects: getXModels throws         *)
ModelOutcomes == {"models", "empty", "error_value", "throws"}

DiscoveryFailed(o) == o \in {"error_value", "throws"}

\* getGeminiModels / getOpenAIModels: the one POST a discovery call sends.
getModels(id, provider, key) == [id |-> id, provider |-> provider, api_key |-> key]

\* fetchGeminiModels / fetchOpenAIModels up to the await.
fetchModels(provider, key) ==
    LET call == getModels(Len(modelLog) + 1, provider, key)
    IN /\ loadingModels' = TRUE
       /\ modelCalls' = modelCalls \cup {call}
       /\ modelLog' = Append(modelLog, [call |-> call, outcome |-> "pending"])

\* saveApiKey (ChatPanel.tsx:72-83), the key inputs' onChange.
saveApiKey(provider, key) ==
    /\ showApiKeyManager
    /\ apiKeys' = [apiKeys EXCEPT ![provider] = key]
    /\ localStore' = [localStore EXCEPT ![IF provider = "openai" THEN "openai_key"
                                          ELSE "gemini_key"] = key]
    /\ IF key # ""
       THEN /\ Len(modelLog) < MaxModelCalls
            /\ fetchModels(provider, key)
            /\ UNCHANGED <<geminiModels, openaiModels>>
       ELSE UNCHANGED modelVars
    /\ UNCHANGED <<messages, input, loading, model, showApiKeyManager,
                   selectedGeminiModel, selectedOpenaiModel, systemPrompt,
                   selectedPapers, chatCalls, chatLog,
                   cacheVars, searchVars, pageVars, homeVars>>

\* if (result.models && result.models.length > 0) setXModels(result.models)
DiscoveredModelsClearing(o, prev, list) == IF o = "models" THEN list ELSE <<>>

DiscoveredModels(o, prev, list) == IF o = "models" THEN list ELSE prev

\* setSelectedXModel(savedModel || result.models[0].name)
DiscoveredSelection(o, prev, saved, list) ==
    IF o = "models" THEN OrElse(saved, list[1].name) ELSE prev

\* fetchGeminiModels / fetchOpenAIModels after the await (then, catch,
\* finally): the call c settles with outcome o.
ModelsSettle(c, o) ==
    LET list == ModelList(c.provider, c.api_key)
    IN /\ c \in modelCalls
       /\ modelCalls' = modelCalls \ {c}
       /\ modelLog' = [i \in 1..Len(modelLog) |->
                          IF modelLog[i].call = c
                          THEN [modelLog[i] EXCEPT !.outcome = o] ELSE modelLog[i]]
       /\ IF c.provider = "gemini"
          THEN /\ geminiModels' = DiscoveredModels(o, geminiModels, list)
               /\ selectedGeminiModel' =
                      DiscoveredSelection(o, selectedGeminiModel,
                                          localStore["gemini_model"], list)
               /\ UNCHANGED <<openaiModels, selectedOpenaiModel>>
          ELSE /\ openaiModels' = DiscoveredModels(o, openaiModels, list)
               /\ selectedOpenaiModel' =
                      DiscoveredSelection(o, selectedOpenaiModel,
                                          localStore["openai_model"], list)
               /\ UNCHANGED <<geminiModels, selectedGeminiModel>>
       /\ loadingModels' = FALSE
       /\ UNCHANGED <<messages, input, loading, model, showApiKeyManager, apiKeys,
                      systemPrompt, selectedPapers, localStore, chatCalls, chatLog,
                      cacheVars, searchVars, pageVars, homeVars>>

\* The model selects' onChange (ChatPanel.tsx:286-289, 315-318): the options
\* are the discovered models.
selectModel(provider, name) ==
    /\ showApiKeyManager
    /\ LET list == IF provider = "gemini" THEN geminiModels ELSE openaiModels
       IN \E i \in 1..Len(list) : list[i].name = name
    /\ IF provider = "gemini"
       THEN /\ selectedGeminiModel' = name
            /\ localStore' = [localStore EXCEPT !["gemini_model"] = name]
            /\ UNCHANGED selectedOpenaiModel
       ELSE /\ selectedOpenaiModel' = name
            /\ localStore' = [localStore EXCEPT !["openai_model"] = name]
            /\ UNCHANGED selectedGeminiModel
    /\ UNCHANGED <<messages, input, loading, model, showApiKeyManager, apiKeys,
                   systemPrompt, selectedPapers, chatCalls, chatLog,
                   cacheVars, searchVars, pageVars, modelVars, homeVars>>

ModelNames ==
    UNION { { ModelList(p, k)[i].name : i \in 1..Len(ModelList(p, k)) } :
              p \in Providers, k \in KeyTexts("openai") \cup KeyTexts("gemini") }

(***************************************************************************)
(* Backend: the Deep-Dive session cache and the chat orchestrator's turn   *)
(* (design 4.3-4.5).  A turn resolves its papers one after the other       *)
(* through the cache, then calls the provider.  Uploads and the provider   *)
(* call are suspension points: other turns and the clock move meanwhile.   *)
(***************************************************************************)
MaxCacheTurns == 2     \* chat turns the backend serves in one run
MaxClock == 3          \* the clock's last tick
TTL == 2               \* lifetime of an uploaded handle, in ticks

TurnIds == 1..MaxCacheTurns

\* The request carries no caller identity (api.ts:64): the fixed fallback.
FallbackSession == "default"

\* The paper lists the panel sends: the urls of its Deep Dive selection.
PaperC == [id |-> "C", title |-> "tC", openreview_url |-> "orC", paper_url |-> ""]
CacheSelections == { <<PaperA>>, <<PaperA, PaperB, PaperC>> }
UrlsOf(sel) == [i \in 1..Len(sel) |-> PaperItems(sel)[i].url]
PaperLists == { UrlsOf(sel) : sel \in CacheSelections }
PaperUrls == UNION { {l[i] : i \in 1..Len(l)} : l \in PaperLists }

Keys == {FallbackSession} \X {"gemini"} \X PaperUrls

Key(provider, paper) == <<FallbackSession, provider, paper>>

\* Only the provider with native document ingestion takes handles (4.3).
NativeIngestion(provider) == provider = "gemini"

\* handle: the n-th file uploaded for the key; 0 before the first.
AbsentEntry == [state |-> "absent", handle |-> 0, expiresAt |-> 0]

\* alone: no other turn was in progress when this one started.
\* sentExpired: a handle of the provider request had expired when it was sent.
IdleTurn == [pc |-> "idle", provider |-> "gemini", papers |-> <<>>, pos |-> 1,
             handles |-> <<>>, sentExpired |-> FALSE, alone |-> TRUE]

InProgress(tr) == tr.pc \in {"waiting", "uploading", "provider"}

\* The handle a turn holds for a paper: whether it was unexpired when the
\* turn got it at time t, and the way it got it.
Held(paper, e, t, how) ==
    [paper |-> paper, handle |-> e.handle, expiresAt |-> e.expiresAt,
     fresh |-> t < e.expiresAt, how |-> how]

\* Cache lookup: a hit is a stored handle that has not expired (4.4).
IsFreshIgnoringExpiry(e, t) == e.state = "ready"

IsFreshNever(e, t) == FALSE

IsFresh(e, t) == e.state = "ready" /\ t < e.expiresAt

\* The dedup barrier: a caller finding an upload in progress waits (4.4, 5).
MayProceedNoBarrier(e) == TRUE

MayProceed(e) == e.state # "uploading"

\* The entry a key's upload leaves in progress.
Uploading(e) == [e EXCEPT !.state = "uploading"]

\* The turn runs from its position to its next suspension point over the
\* cache c at time t: hits are taken without suspending; it stops waiting at
\* an upload in progress, uploading at a miss or an expired entry, or
\* awaiting the provider with every handle resolved and sent.
RECURSIVE Run(_, _, _)
Run(tr, c, t) ==
    IF tr.pos > Len(tr.papers)
    THEN [tr EXCEPT !.pc = "provider",
                    !.sentExpired = \E i \in 1..Len(tr.handles) :
                                        tr.handles[i].expiresAt <= t]
    ELSE LET e == c[Key(tr.provider, tr.papers[tr.pos])]
         IN IF ~MayProceed(e) THEN [tr EXCEPT !.pc = "waiting"]
            ELSE IF IsFresh(e, t)
                 THEN Run([tr EXCEPT !.pos = tr.pos + 1,
                                     !.handles = Append(tr.handles,
                                         Held(tr.papers[tr.pos], e, t, "hit"))],
                          c, t)
                 ELSE [tr EXCEPT !.pc = "uploading"]

\* Turn t goes on as tr over the cache c: a turn that stopped at a miss
\* marks the key and starts its upload.
Continue(t, tr, c) ==
    LET r == Run(tr, c, now)
        k == Key(r.provider, r.papers[r.pos])
    IN /\ turns' = [turns EXCEPT ![t] = r]
       /\ IF r.pc = "uploading"
          THEN /\ cache' = [c EXCEPT ![k] = Uploading(c[k])]
               /\ uploads' = [uploads EXCEPT ![k] = @ + 1]
          ELSE /\ cache' = c
               /\ UNCHANGED uploads

\* POST /chat arrives: Idle -> Resolving (4.5).  A provider without native
\* ingestion takes the links: no handle is resolved.
StartTurn(t, provider, list) ==
    /\ turns[t].pc = "idle"
    /\ \A u \in TurnIds : u < t => turns[u].pc # "idle"
    /\ LET tr == [IdleTurn EXCEPT
                    !.provider = provider, !.papers = list,
                    !.alone = \A u \in TurnIds : ~InProgress(turns[u])]
       IN IF NativeIngestion(provider)
          THEN Continue(t, tr, cache)
          ELSE /\ turns' = [turns EXCEPT ![t] = [tr EXCEPT !.pc = "provider"]]
               /\ UNCHANGED <<cache, uploads>>
    /\ UNCHANGED <<now, chatVars, searchVars, pageVars, modelVars, homeVars>>

\* The upload in progress for the turn's key ended: the waiting turn goes on.
Resume(t) ==
    /\ turns[t].pc = "waiting"
    /\ MayProceed(cache[Key(turns[t].provider, turns[t].papers[turns[t].pos])])
    /\ Continue(t, turns[t], cache)
    /\ UNCHANGED <<now, chatVars, searchVars, pageVars, modelVars, homeVars>>

\* The upload returns: store the new handle and its expiry, then proceed.
UploadDone(t) ==
    LET tr == turns[t]
        k  == Key(tr.provider, tr.papers[tr.pos])
        e  == [state |-> "ready", handle |-> cache[k].handle + 1,
               expiresAt |-> now + TTL]
    IN /\ tr.pc = "uploading"
       /\ Continue(t,
                   [tr EXCEPT !.pos = tr.pos + 1,
                              !.handles = Append(tr.handles,
                                              Held(k[3], e, now, "upload"))],
                   [cache EXCEPT ![k] = e])
       /\ UNCHANGED <<now, chatVars, searchVars, pageVars, modelVars, homeVars>>

\* The provider answers or fails: the turn ends either way (4.5).
ProviderDone(t) ==
    /\ turns[t].pc = "provider"
    /\ turns' = [turns EXCEPT ![t] =
                    [IdleTurn EXCEPT !.pc = "done", !.provider = turns[t].provider,
                                     !.papers = turns[t].papers,
                                     !.alone = turns[t].alone]]
    /\ UNCHANGED <<cache, now, uploads, chatVars, searchVars, pageVars, modelVars, homeVars>>

\* Time passes.
Tick ==
    /\ now < MaxClock
    /\ now' = now + 1
    /\ UNCHANGED <<cache, turns, uploads, chatVars, searchVars, pageVars, modelVars, homeVars>>

(***************************************************************************)
(* Backend: query planner and retrieval executor (design 4.1, 4.2).        *)
(* A corpus item carries its delimited fields as the sequences of their    *)
(* sub-values and its distance to the query, in hundredths.                *)
(***************************************************************************)
CorpusSize == 6        \* items of the corpus

ThresholdValues == {0, 40, 100}     \* 1 - similarity, similarity in steps of 0.05
LimitValues == {5, 10}              \* slider positions (min 5, max 50, step 5)
\* The kinds of item: affiliation sub-values and distance.
ItemKinds == { << <<"MIT">>, 10 >>, << <<"MIT">>, 30 >>, << <<"Google", "Stanford">>, 50 >> }

FilterFields == {"affiliation", "author", "session", "day"}

NoFilter == [affiliation |-> {}, author |-> {}, session |-> {}, day |-> {}]
FilterValues ==
    { [NoFilter EXCEPT !.affiliation = a] :
        a \in { {}, {"MIT"}, {"Stanford", "CMU"}, {"CMU"} } }
    \cup { [NoFilter EXCEPT !.affiliation = {"MIT"}, !.author = {b}] :
              b \in {"Bengio", "Hinton"} }

Item(i, aff, d) ==
    [id |-> i, affiliation |-> aff, author |-> <<"Bengio">>, session |-> <<"Oral">>,
     day |-> <<"2025-12-03 AM">>, distance |-> d]

Corpora ==
    { [i \in 1..CorpusSize |-> Item(i, k[i][1], k[i][2])] :
        k \in [1..CorpusSize -> ItemKinds] }

Range(s) == { s[i] : i \in 1..Len(s) }

Min(a, b) == IF a < b THEN a ELSE b
Max(a, b) == IF a > b THEN a ELSE b

\* limit: clamp to [5, 50] (4.1).
MIN_LIMIT == 5
MAX_LIMIT == 50
ClampLimit(l) == Max(MIN_LIMIT, Min(MAX_LIMIT, l))

\* The compiled filter: OR within a field over the item's sub-values, AND
\* across fields; an empty field constrains nothing (3, 4.1).
MatchesField(item, f, field) ==
    f[field] = {} \/ Range(item[field]) \cap f[field] # {}

Matches(item, f) == \A field \in FilterFields : MatchesField(item, f, field)

\* Stable insertion by ascending distance: x goes after every item that is
\* at most as far as x (4.2: ties keep corpus insertion order).
RECURSIVE InsertBeforeTies(_, _)
InsertBeforeTies(x, s) ==
    IF s = <<>> THEN <<x>>
    ELSE IF x.distance <= Head(s).distance THEN <<x>> \o s
    ELSE <<Head(s)>> \o InsertBeforeTies(x, Tail(s))

RECURSIVE InsertByDistance(_, _)
InsertByDistance(x, s) ==
    IF s = <<>> THEN <<x>>
    ELSE IF x.distance < Head(s).distance THEN <<x>> \o s
    ELSE <<Head(s)>> \o InsertByDistance(x, Tail(s))

RECURSIVE RankByDistance(_)
RankByDistance(s) ==
    IF s = <<>> THEN <<>>
    ELSE InsertByDistance(s[Len(s)], RankByDistance(SubSeq(s, 1, Len(s) - 1)))

WithinThreshold(s, th) == SelectSeq(s, LAMBDA x : x.distance <= th)

Cap(s, l) == SubSeq(s, 1, Min(l, Len(s)))

\* filter, rank, truncate to the threshold, cap to the limit (4.2).
Retrieve(c, req) ==
    Cap(WithinThreshold(RankByDistance(SelectSeq(c, LAMBDA x : Matches(x, req.filters))),
                        req.threshold),
        ClampLimit(req.limit))

(***************************************************************************)
(* The search page (app/page.tsx, handleSearch) and searchPapers (api.ts). *)
(***************************************************************************)
NoCall == [query |-> "none"]
NoSearch == [req |-> NoCall, results |-> <<>>, form |-> "none"]

\* searchPapers (api.ts:20-38): the body of the POST /search.
SearchRequestWithoutFilters(q, f, l, th) ==
    [query |-> q, filters |-> NoFilter, limit |-> l, threshold |-> th]

SearchRequest(q, f, l, th) ==
    [query |-> q, filters |-> f, limit |-> l, threshold |-> th]

\* The two response forms (design 6): {results: R} and the bare array R.
ResponseForms == {"object", "array"}

\* The body of an OK response carrying the list R in the given form.
ResponseBody(form, R) == IF form = "object" THEN [results |-> R] ELSE R

\* results.results: the field of the object form; an array has no such
\* property, which is undefined (the empty tuple here, the array <<v>>-wrapped).
ResultsField(form, body) == IF form = "object" THEN <<body.results>> ELSE <<>>

\* results.results || results (handleSearch): an array, even an empty one,
\* is truthy; undefined is not.
ResultListDroppingFirst(form, R) == IF R = <<>> THEN R ELSE Tail(R)

ResultListReversed(form, R) == [i \in 1..Len(R) |-> R[Len(R) + 1 - i]]

ResultListObjectOnly(form, R) == IF form = "object" THEN R ELSE <<>>

ResultList(form, R) ==
    LET body  == ResponseBody(form, R)
        field == ResultsField(form, body)
    IN IF field # <<>> THEN field[1] ELSE body

\* handleSearch up to its await: the submit button is disabled while loading.
handleSearch(f, l, th) ==
    /\ searchCall = NoCall
    /\ searchCall' = SearchRequest("diffusion models", f, l, th)
    /\ UNCHANGED <<corpus, papers, lastSearch, lastOutcome,
                   chatVars, cacheVars, pageVars, modelVars, homeVars>>

\* The backend answers; handleSearch stores the list.
SearchSettle(form) ==
    /\ searchCall # NoCall
    /\ LET R == Retrieve(corpus, searchCall)
       IN /\ papers' = ResultList(form, R)
          /\ lastSearch' = [req |-> searchCall, results |-> R, form |-> form]
    /\ lastOutcome' = "ok"
    /\ searchCall' = NoCall
    /\ UNCHANGED <<corpus, chatVars, cacheVars, pageVars, modelVars, homeVars>>

\* The call fails (non-OK response, network error): the catch only logs.
SearchFail ==
    /\ searchCall # NoCall
    /\ searchCall' = NoCall
    /\ lastOutcome' = "failed"
    /\ UNCHANGED <<corpus, papers, lastSearch, chatVars, cacheVars, pageVars, modelVars, homeVars>>

(***************************************************************************)
(* The search page's controls (app/page.tsx, Home): the two sliders and    *)
(* the filter options loaded on mount.  Distances and similarities are in  *)
(* hundredths.                                                             *)
(***************************************************************************)
DEFAULT_LIMIT == 10         \* useState(10)
DEFAULT_THRESHOLD == 60     \* useState(0.6)
LIMIT_STEP == 5             \* the Max Results slider: min 5, max 50, step 5
SIMILARITY_STEP == 5        \* the Min Similarity slider: min 0.0, max 1.0, step 0.05
MAX_SIMILARITY == 100

\* The positions of a range input: min, min + step, ... up to max.
SliderPositionsPastMax(min, max, step) ==
    { v \in min..(max + step) : (v - min) % step = 0 }

SliderPositions(min, max, step) ==
    { v \in min..max : (v - min) % step = 0 }

Lowest(S) == CHOOSE x \in S : \A y \in S : x <= y
Highest(S) == CHOOSE x \in S : \A y \in S : x >= y

\* The positions the model moves a slider to: its two ends and one between.
Moves(positions, between) ==
    {Lowest(positions), Highest(positions)} \cup (positions \cap {between})

LimitMoves == Moves(SliderPositions(MIN_LIMIT, MAX_LIMIT, LIMIT_STEP), DEFAULT_LIMIT)
SimilarityMoves ==
    Moves(SliderPositions(0, MAX_SIMILARITY, SIMILARITY_STEP), DEFAULT_THRESHOLD)

\* onChange={(e) => setLimit(parseInt(e.target.value))}
setLimit(v) ==
    /\ limit' = v
    /\ moved' = moved \cup {"limit"}
    /\ UNCHANGED <<threshold, filters, filterOptions, filtersFetch,
                   chatVars, cacheVars, searchVars, modelVars, homeVars>>

\* 1 - parseFloat(e.target.value): the slider shows similarity, the state
\* holds distance.
ThresholdOfSimilarity(sim) == MAX_SIMILARITY - sim

\* onChange={(e) => setThreshold(1 - parseFloat(e.target.value))}
setThreshold(sim) ==
    /\ threshold' = ThresholdOfSimilarity(sim)
    /\ moved' = moved \cup {"threshold"}
    /\ UNCHANGED <<limit, filters, filterOptions, filtersFetch,
                   chatVars, cacheVars, searchVars, modelVars, homeVars>>

(***************************************************************************)
(* Filter discovery: getFilters (api.ts:73-85) and the mount effect        *)
(* getFilters().then(setFilterOptions).catch(console.error).               *)
(*   ok             response.ok, readable body                             *)
(*   not_ok         !response.ok                                           *)
(*   network_error  fetch rejects                                          *)
(*   bad_json       response.ok, response.json() rejects                   *)
(***************************************************************************)
FilterOutcomes == {"ok", "not_ok", "network_error", "bad_json"}

InitialFilterOptions == [affiliations |-> <<>>, authors |-> <<>>, sessions |-> <<>>]

DefaultFilterOptions ==
    [affiliations |-> <<>>, authors |-> <<>>, sessions |-> <<>>, days |-> <<>>,
     ampm |-> <<"AM", "PM">>]

ServerFilterOptions ==
    [affiliations |-> <<"Google", "MIT", "Stanford">>, authors |-> <<"Bengio">>,
     sessions |-> <<"Oral">>, days |-> <<"2025-12-03">>, ampm |-> <<"AM", "PM">>]

PendingFetch == [state |-> "pending", outcome |-> "none"]

\* How the promise of getFilters() settles.  fetch is awaited inside the
\* try, so its rejection reaches the catch; response.json() is returned
\* without await, so its rejection settles the promise after the try block
\* was left and the catch does not see it.
getFilters(o) ==
    CASE o = "network_error" -> [state |-> "resolved", value |-> DefaultFilterOptions]
      [] o = "not_ok"        -> [state |-> "resolved", value |-> DefaultFilterOptions]
      [] o = "ok"            -> [state |-> "resolved", value |-> ServerFilterOptions]
      [] OTHER               -> [state |-> "rejected", value |-> InitialFilterOptions]

\* The call settles: then(setFilterOptions) on a value, catch(console.error)
\* on a rejection.
FiltersSettle(o) ==
    LET r == getFilters(o)
    IN /\ filtersFetch.state = "pending"
       /\ filtersFetch' = [state |-> r.state, outcome |-> o]
       /\ filterOptions' = IF r.state = "resolved" THEN r.value ELSE filterOptions
       /\ UNCHANGED <<limit, threshold, filters, moved,
                      chatVars, cacheVars, searchVars, modelVars, homeVars>>

(***************************************************************************)
(* Sign-in: authorize (api/auth/[...nextauth]/route.ts:12-22) and          *)
(* isEmailAllowed (config/allowedDomains.ts).  An address is a sequence of *)
(* tokens: "@", or a run of characters without "@".                        *)
(***************************************************************************)
MaxEmailLen == 5       \* tokens of a submitted address

EmailTokens == {"@", "x", "fractile.ai", "Fractile.AI", "evil.com",
                "sylvain.viguier", "gmail.com"}

Emails == UNION { [1..n -> EmailTokens] : n \in 0..MaxEmailLen }

ALLOWED_DOMAINS == { <<"fractile.ai">> }
ALLOWED_EMAILS  == { <<"sylvain.viguier", "@", "gmail.com">> }

\* String.prototype.toLowerCase
TokenToLowerCase(t) == IF t = "Fractile.AI" THEN "fractile.ai" ELSE t
toLowerCase(s) == [i \in 1..Len(s) |-> TokenToLowerCase(s[i])]

\* The positions of "@" in s, and the k-th of them.
AtPositions(s) == { i \in 1..Len(s) : s[i] = "@" }
KthAt(s, k) == CHOOSE i \in AtPositions(s) :
                   Cardinality({ j \in AtPositions(s) : j < i }) = k - 1

\* email.split('@')[1]: the text between the first "@" and the second one
\* (or the end), wrapped in a 1-tuple; << >> where split has one element only.
SplitSecond(s) ==
    IF AtPositions(s) = {} THEN <<>>
    ELSE LET from == KthAt(s, 1) + 1
             to   == IF Cardinality(AtPositions(s)) > 1
                     THEN KthAt(s, 2) - 1 ELSE Len(s)
         IN << SubSeq(s, from, to) >>

\* isEmailAllowed (config/allowedDomains.ts:14-17)
isEmailAllowed(email) ==
    LET part == SplitSecond(email)
    IN \/ toLowerCase(email) \in ALLOWED_EMAILS
       \/ /\ part # <<>>
          /\ toLowerCase(part[1]) \in ALLOWED_DOMAINS

NoCredentials == <<>>      \* credentials?.email is undefined
NoUser == <<>>             \* authorize returned null

\* name: credentials.email.split('@')[0]
SplitFirst(s) ==
    IF AtPositions(s) = {} THEN s ELSE SubSeq(s, 1, KthAt(s, 1) - 1)

\* authorize (route.ts:12-22); the empty string is falsy.
authorizeResult(cred) ==
    IF cred # NoCredentials /\ cred[1] # <<>> /\ isEmailAllowed(cred[1])
    THEN << [id |-> cred[1], email |-> cred[1], name |-> SplitFirst(cred[1])] >>
    ELSE NoUser

authorize ==
    /\ signIn = "submitted"
    /\ signIn' = "done"
    /\ authUser' = authorizeResult(credentials)
    /\ UNCHANGED <<credentials, chatVars, cacheVars, searchVars, pageVars, modelVars,
                   bookVars, deepVars, panelVars>>

(***************************************************************************)
(* Bookmarks: BookmarksProvider (contexts/BookmarksContext.tsx) and the    *)
(* star button of a paper card (PaperCard.tsx:15-24).  A paper is known by *)
(* its id; the same paper comes back from different searches with          *)
(* different distances.  A localStorage item is << >> when absent and      *)
(* <<value>> when present; JSON.stringify / JSON.parse of a list of papers *)
(* give the list back.                                                     *)
(***************************************************************************)
MaxBookmarkIds == 3    \* papers the user sees on cards

CardPapers == { [id |-> i, distance |-> d] : i \in 1..MaxBookmarkIds, d \in {10, 30} }

Absent == <<>>
Stored(value) == <<value>>

\* prev.some(p => p.id === id)
SomeId(list, id) == \E i \in 1..Len(list) : list[i].id = id

\* prev.filter(p => p.id !== id)
RECURSIVE FilterOutId(_, _)
FilterOutId(list, id) ==
    IF list = <<>> THEN <<>>
    ELSE IF Head(list).id = id THEN FilterOutId(Tail(list), id)
         ELSE <<Head(list)>> \o FilterOutId(Tail(list), id)

\* The lists the provider can have stored in an earlier visit.
StoredBookmarks ==
    { <<>>,
      << [id |-> 1, distance |-> 10] >>,
      << [id |-> 2, distance |-> 30], [id |-> 1, distance |-> 10] >> }

\* The save effect (BookmarksContext.tsx:36-44), run after a render in
\* which bookmarks or isLoaded changed.
SaveEffect(list, loaded, store) ==
    IF loaded THEN Stored(list) ELSE store

\* The load effect (22-33) with the save effect of the same commit, which
\* still sees isLoaded = false, and the save effect of the re-render.
BookmarksMount ==
    /\ ~isLoaded
    /\ bookmarks' = IF bookmarkStore # Absent THEN bookmarkStore[1] ELSE bookmarks
    /\ isLoaded' = TRUE
    /\ bookmarkStore' = SaveEffect(bookmarks', isLoaded', SaveEffect(bookmarks, isLoaded, bookmarkStore))
    /\ bookmarkOp' = [op |-> "mount", id |-> 0]
    /\ UNCHANGED <<chatVars, cacheVars, searchVars, pageVars, modelVars, authVars,
                   deepVars, panelVars>>

\* The updater of addBookmark (46-54).
AddedAlways(prev, paper) == Append(prev, paper)

Added(prev, paper) ==
    IF SomeId(prev, paper.id) THEN prev ELSE Append(prev, paper)

addBookmark(paper) ==
    /\ isLoaded
    /\ bookmarks' = Added(bookmarks, paper)
    /\ bookmarkStore' = SaveEffect(bookmarks', isLoaded, bookmarkStore)
    /\ bookmarkOp' = [op |-> "add", id |-> paper.id]
    /\ UNCHANGED <<isLoaded, chatVars, cacheVars, searchVars, pageVars, modelVars,
                   authVars, deepVars, panelVars>>

\* removeBookmark (56-58)
removeBookmark(paperId) ==
    /\ isLoaded
    /\ bookmarks' = FilterOutId(bookmarks, paperId)
    /\ bookmarkStore' = SaveEffect(bookmarks', isLoaded, bookmarkStore)
    /\ bookmarkOp' = [op |-> "remove", id |-> paperId]
    /\ UNCHANGED <<isLoaded, chatVars, cacheVars, searchVars, pageVars, modelVars,
                   authVars, deepVars, panelVars>>

\* isBookmarked (60-62)
isBookmarked(paperId) == SomeId(bookmarks, paperId)

\* clearBookmarks (64-72), called by the bookmarks page after a confirm.
clearBookmarks ==
    /\ isLoaded
    /\ bookmarks' = <<>>
    /\ bookmarkStore' = Stored(<<>>)
    /\ bookmarkOp' = [op |-> "clear", id |-> 0]
    /\ UNCHANGED <<isLoaded, chatVars, cacheVars, searchVars, pageVars, modelVars,
                   authVars, deepVars, panelVars>>

\* handleToggleBookmark (PaperCard.tsx:18-24)
handleToggleBookmark(paper) ==
    IF isBookmarked(paper.id) THEN removeBookmark(paper.id) ELSE addBookmark(paper)

(***************************************************************************)
(* Home: the Deep Dive selection (api/auth/[...nextauth]/route.ts:53-88,   *)
(* 128-177, the newest version of app/page.tsx).  The earlier version of   *)
(* the page (app/page.tsx:28-47, 104-122) kept the selection as a basket   *)
(* without a size limit under the key 'deepDiveBasket'.                    *)
(***************************************************************************)
MAX_DEEP_DIVE_PAPERS == 25

DeepDiveCorpusSize == 27   \* items of the corpus the page searches
MaxPageLoads == 2          \* mounts of the page

DeepDiveCorpus == [i \in 1..DeepDiveCorpusSize |-> Item(i, <<"MIT">>, i)]

\* The first n items of the corpus, as a selection.
FirstPapers(n) == SubSeq(DeepDiveCorpus, 1, n)

\* What an earlier visit left in storage: nothing; a basket of the earlier
\* version of the page; a selection of this version.
StoredSelections ==
    { [current |-> Absent, legacy |-> Absent],
      [current |-> Absent, legacy |-> Stored(FirstPapers(2))],
      [current |-> Absent, legacy |-> Stored(FirstPapers(MAX_DEEP_DIVE_PAPERS + 1))],
      [current |-> Stored(<<>>), legacy |-> Absent],
      [current |-> Stored(FirstPapers(2)), legacy |-> Absent],
      [current |-> Stored(FirstPapers(MAX_DEEP_DIVE_PAPERS)), legacy |-> Absent] }

\* a ?? b on localStorage items
Coalesce(a, b) == IF a # Absent THEN a ELSE b

NoOp == [op |-> "none", id |-> 0]

\* The two mount effects (route.ts:72-88), run in one flush: the load
\* effect passes the stored list to setDeepDivePapers and removes the
\* legacy key; the persist effect writes the deepDivePapers of this render.
HomeMount ==
    /\ home = "closed"
    /\ pageLoads < MaxPageLoads
    /\ pageLoads' = pageLoads + 1
    /\ LET savedPapers == Coalesce(deepDiveStore.current, deepDiveStore.legacy)
       IN /\ pendingPapers' = savedPapers
          /\ storedAtMount' = savedPapers
          /\ deepDiveStore' =
                 [current |-> Stored(deepDivePapers),
                  legacy  |-> IF savedPapers # Absent THEN Absent
                              ELSE deepDiveStore.legacy]
          /\ home' = IF savedPapers # Absent THEN "effects" ELSE "ready"
    /\ edited' = FALSE
    /\ deepDiveOp' = [op |-> "mount", id |-> 0]
    /\ UNCHANGED <<deepDivePapers, chatVars, cacheVars, searchVars, pageVars, modelVars,
                   authVars, bookVars, panelVars>>

\* The re-render the load effect scheduled, and the persist effect after it.
HomeRender ==
    /\ home = "effects"
    /\ deepDivePapers' = pendingPapers[1]
    /\ deepDiveStore' = [deepDiveStore EXCEPT !.current = Stored(deepDivePapers')]
    /\ pendingPapers' = Absent
    /\ home' = "ready"
    /\ deepDiveOp' = [op |-> "render", id |-> 0]
    /\ UNCHANGED <<storedAtMount, edited, pageLoads, chatVars, cacheVars, searchVars,
                   pageVars, modelVars, authVars, bookVars, panelVars>>

\* A state update of the mounted page by a user operation, with the
\* persist effect of the render that follows it.
SetDeepDivePapers(next, op) ==
    /\ deepDivePapers' = next
    /\ deepDiveStore' = [deepDiveStore EXCEPT !.current = Stored(next)]
    /\ edited' = TRUE
    /\ deepDiveOp' = op
    /\ UNCHANGED <<home, pendingPapers, storedAtMount, pageLoads, chatVars, cacheVars,
                   searchVars, pageVars, modelVars, authVars, bookVars, panelVars>>

\* The updater of toggleDeepDivePaper (route.ts:129-138).
Toggled(prev, paper) ==
    IF SomeId(prev, paper.id) THEN FilterOutId(prev, paper.id)
    ELSE IF Len(prev) >= MAX_DEEP_DIVE_PAPERS THEN prev
    ELSE Append(prev, paper)

toggleDeepDivePaper(paper) ==
    /\ home = "ready"
    /\ SetDeepDivePapers(Toggled(deepDivePapers, paper), [op |-> "toggle", id |-> paper.id])

isPaperInDeepDive(paperId) == SomeId(deepDivePapers, paperId)
deepDiveFull == Len(deepDivePapers) >= MAX_DEEP_DIVE_PAPERS

\* The card's Deep Dive button (PaperCard.tsx:147-154).
DeepDiveButton(paper) ==
    /\ ~(~isPaperInDeepDive(paper.id) /\ deepDiveFull)
    /\ toggleDeepDivePaper(paper)

\* clearDeepDive (route.ts:143-150); the user answers the confirm.
clearDeepDive(confirmed) ==
    /\ home = "ready"
    /\ IF Len(deepDivePapers) = 0 \/ ~confirmed
       THEN UNCHANGED vars
       ELSE SetDeepDivePapers(<<>>, [op |-> "clear", id |-> 0])

\* papers.filter(p => !existingIds.has(p.id))
AdditionsUnfiltered(prev, results) == results

Additions(prev, results) ==
    SelectSeq(results, LAMBDA p : p.id \notin { prev[i].id : i \in 1..Len(prev) })

\* The updater of addAllToDeepDive (route.ts:156-172).
AddedAll(prev, results) ==
    IF Len(prev) >= MAX_DEEP_DIVE_PAPERS THEN prev
    ELSE LET additions == Additions(prev, results)
             availableSlots == MAX_DEEP_DIVE_PAPERS - Len(prev)
         IN IF Len(additions) = 0 THEN prev
            ELSE prev \o SubSeq(additions, 1, Min(availableSlots, Len(additions)))

addAllToDeepDive ==
    /\ home = "ready"
    /\ IF Len(papers) = 0
       THEN UNCHANGED vars
       ELSE SetDeepDivePapers(AddedAll(deepDivePapers, papers), [op |-> "addAll", id |-> 0])

\* The cards the model clicks: the first and the last of the result list.
Cards == { papers[i] : i \in {1, Len(papers)} \cap (1..Len(papers)) }

\* The tab is closed or reloaded: the page's state is gone, storage stays.
ClosePage ==
    /\ home # "closed"
    /\ home' = "closed"
    /\ deepDivePapers' = <<>>
    /\ pendingPapers' = Absent
    /\ deepDiveOp' = [op |-> "close", id |-> 0]
    /\ papers' = <<>>
    /\ searchCall' = NoCall
    /\ UNCHANGED <<deepDiveStore, storedAtMount, edited, pageLoads, corpus, lastSearch,
                   lastOutcome, chatVars, cacheVars, pageVars, modelVars, authVars,
                   bookVars, panelVars>>

(***************************************************************************)
(* Home: the chat panel's mount (route.ts:494-499).  {showChat &&          *)
(* <ChatPanel/>} unmounts the panel on onClose and mounts a new one on the *)
(* Deep Dive button: the new panel starts from its useState initial values *)
(* and runs its mount effect; a promise of the old panel that settles      *)
(* later sets state of an unmounted component, which changes nothing.      *)
(***************************************************************************)
\* useState(false) of loading (ChatPanel.tsx:27), for a new panel.
InitialLoadingKept == loading

InitialLoading == FALSE

\* onClose={() => setShowChat(false)}
CloseChat ==
    /\ showChat
    /\ showChat' = FALSE
    /\ abandoned' = abandoned \cup chatCalls
    /\ chatCalls' = {}
    /\ modelCalls' = {}
    /\ modelLog' = [i \in 1..Len(modelLog) |->
                       IF modelLog[i].outcome = "pending"
                       THEN [modelLog[i] EXCEPT !.outcome = "abandoned"]
                       ELSE modelLog[i]]
    /\ UNCHANGED <<messages, input, loading, model, showApiKeyManager, apiKeys,
                   selectedGeminiModel, selectedOpenaiModel, systemPrompt, selectedPapers,
                   localStore, chatLog, geminiModels, openaiModels, loadingModels,
                   cacheVars, searchVars, pageVars, authVars, bookVars, deepVars>>

\* The providers whose stored key the mount effect finds, in the order it
\* fetches their models (ChatPanel.tsx:58-65).
StoredKeyProviders ==
    SelectSeq(<<"openai", "gemini">>,
              LAMBDA p : OrElse(localStore[IF p = "openai" THEN "openai_key"
                                           ELSE "gemini_key"], "") # "")

\* The Deep Dive button (route.ts:450-456): a new panel mounts on the
\* selection and runs its mount effect (ChatPanel.tsx:49-70).
OpenChat ==
    /\ ~showChat
    /\ Len(deepDivePapers) > 0
    /\ showChat' = TRUE
    /\ selectedPapers' = deepDivePapers
    /\ messages' = <<>>
    /\ input' = <<>>
    /\ loading' = InitialLoading
    /\ model' = "gemini"
    /\ showApiKeyManager' = FALSE
    /\ apiKeys' = [openai |-> OrElse(localStore["openai_key"], ""),
                   gemini |-> OrElse(localStore["gemini_key"], "")]
    /\ selectedGeminiModel' = OrElse(localStore["gemini_model"], "")
    /\ selectedOpenaiModel' = OrElse(localStore["openai_model"], "")
    /\ systemPrompt' = OrElse(localStore["system_prompt"], DEFAULT_PROMPT)
    /\ geminiModels' = <<>>
    /\ openaiModels' = <<>>
    /\ LET ps == StoredKeyProviders
       IN /\ Len(modelLog) + Len(ps) <= MaxModelCalls
          /\ loadingModels' = (ps # <<>>)
          /\ LET calls == [i \in 1..Len(ps) |->
                             getModels(Len(modelLog) + i, ps[i],
                                       localStore[IF ps[i] = "openai" THEN "openai_key"
                                                  ELSE "gemini_key"])]
             IN /\ modelCalls' = { calls[i] : i \in 1..Len(calls) }
                /\ modelLog' = modelLog \o
                       [i \in 1..Len(calls) |-> [call |-> calls[i], outcome |-> "pending"]]
    /\ UNCHANGED <<localStore, chatCalls, chatLog, abandoned,
                   cacheVars, searchVars, pageVars, authVars, bookVars, deepVars>>

\* A chat call of a closed panel settles: its continuation (ChatPanel.tsx:
\* 189-201) sets state of the unmounted component only.
AbandonedSettle(c, o) ==
    /\ c \in abandoned
    /\ abandoned' = abandoned \ {c}
    /\ chatLog' = Settled(chatLog, c, o)
    /\ UNCHANGED <<messages, input, loading, model, showApiKeyManager, apiKeys,
                   selectedGeminiModel, selectedOpenaiModel, systemPrompt, selectedPapers,
                   localStore, chatCalls, showChat,
                   cacheVars, searchVars, pageVars, modelVars, authVars, bookVars, deepVars>>

(***************************************************************************)
(* Initial states.                                                         *)
(***************************************************************************)
InitChat ==
    /\ messages = <<>>
    /\ input = <<>>
    /\ loading = FALSE
    /\ model = "gemini"
    /\ showApiKeyManager = FALSE
    /\ apiKeys = [openai |-> "", gemini |-> ""]
    /\ selectedGeminiModel = ""
    /\ selectedOpenaiModel = ""
    /\ systemPrompt = DEFAULT_PROMPT
    /\ localStore = [k \in StorageKeys |-> UNDEFINED]
    /\ chatCalls = {}
    /\ chatLog = <<>>

InitCache ==
    /\ cache = [k \in Keys |-> AbsentEntry]
    /\ now = 0
    /\ turns = [t \in TurnIds |-> IdleTurn]
    /\ uploads = [k \in Keys |-> 0]

InitSearch ==
    /\ searchCall = NoCall
    /\ papers = <<>>
    /\ lastSearch = NoSearch
    /\ lastOutcome = "none"

\* The search page as mounted: the controls at their defaults, the mount
\* effect's getFilters() pending.
InitPage ==
    /\ limit = DEFAULT_LIMIT
    /\ threshold = DEFAULT_THRESHOLD
    /\ filters = NoFilter
    /\ moved = {}
    /\ filterOptions = InitialFilterOptions
    /\ filtersFetch = PendingFetch

InitModels ==
    /\ geminiModels = <<>>
    /\ openaiModels = <<>>
    /\ loadingModels = FALSE
    /\ modelCalls = {}
    /\ modelLog = <<>>

InitAuth ==
    /\ credentials = NoCredentials
    /\ signIn = "none"
    /\ authUser = NoUser

\* The provider before its mount effects, on a browser without a stored list.
InitBookmarks ==
    /\ bookmarks = <<>>
    /\ isLoaded = FALSE
    /\ bookmarkStore = Absent
    /\ bookmarkOp = [op |-> "none", id |-> 0]

\* The page mounted on a browser that had nothing stored.
InitDeepDive ==
    /\ deepDivePapers = <<>>
    /\ deepDiveStore = [current |-> Stored(<<>>), legacy |-> Absent]
    /\ home = "ready"
    /\ pendingPapers = Absent
    /\ storedAtMount = Absent
    /\ edited = FALSE
    /\ pageLoads = 1
    /\ deepDiveOp = NoOp

InitPanel ==
    /\ showChat = TRUE
    /\ abandoned = {}

InitHome == InitAuth /\ InitBookmarks /\ InitDeepDive /\ InitPanel

FixedCorpus == [i \in 1..CorpusSize |-> Item(i, <<"MIT">>, 10)]

\* A panel opened on a Deep Dive selection.
Init ==
    /\ InitChat /\ InitCache /\ InitSearch /\ InitPage /\ InitModels /\ InitHome
    /\ selectedPapers \in Selections
    /\ corpus = FixedCorpus

\* The backend with a cold cache.
InitCacheSpec ==
    /\ InitChat /\ InitCache /\ InitSearch /\ InitPage /\ InitModels /\ InitHome
    /\ selectedPapers = <<PaperA>>
    /\ corpus = FixedCorpus

\* The search page over any corpus, with the controls where the user has
\* put them and the filter options loaded.
InitSearchSpec ==
    /\ InitChat /\ InitCache /\ InitSearch /\ InitModels /\ InitHome
    /\ selectedPapers = <<PaperA>>
    /\ corpus \in Corpora
    /\ limit \in LimitValues
    /\ threshold \in ThresholdValues
    /\ filters \in FilterValues
    /\ moved = {"limit", "threshold"}
    /\ filterOptions = InitialFilterOptions
    /\ filtersFetch = PendingFetch

(***************************************************************************)
(* Next-state relations and specifications.                                *)
(***************************************************************************)
Next ==
    \/ \E v \in InputTexts : SetInput(v)
    \/ SubmitButton
    \/ EnterKey
    \/ \E c \in chatCalls, o \in Outcomes : ChatSettle(c, o)
    \/ \E m \in Providers : setModel(m)
    \/ \E b \in BOOLEAN : setShowApiKeyManager(b)
    \/ \E p \in Prompts : setSystemPrompt(p)

Spec == Init /\ [][Next]_vars

NextCache ==
    \/ \E t \in TurnIds, p \in Providers, l \in PaperLists : StartTurn(t, p, l)
    \/ \E t \in TurnIds : Resume(t)
    \/ \E t \in TurnIds : UploadDone(t)
    \/ \E t \in TurnIds : ProviderDone(t)
    \/ Tick

SpecCache == InitCacheSpec /\ [][NextCache]_vars

\* The panel with its settings modal: credentials, model discovery, and the
\* submission of the question that is typed already; its call stays pending.
InitModelsSpec ==
    /\ InitCache /\ InitSearch /\ InitPage /\ InitModels /\ InitHome
    /\ messages = <<>> /\ loading = FALSE /\ model = "gemini"
    /\ input = <<" ", "a">>
    /\ showApiKeyManager = FALSE
    /\ apiKeys = [openai |-> "", gemini |-> ""]
    /\ selectedGeminiModel = "" /\ selectedOpenaiModel = ""
    /\ systemPrompt = DEFAULT_PROMPT
    /\ localStore = [k \in StorageKeys |-> UNDEFINED]
    /\ chatCalls = {} /\ chatLog = <<>>
    /\ selectedPapers \in Selections
    /\ corpus = FixedCorpus

NextModels ==
    \/ \E b \in BOOLEAN : setShowApiKeyManager(b)
    \/ \E p \in Providers : \E k \in KeyTexts(p) : saveApiKey(p, k)
    \/ \E c \in modelCalls, o \in ModelOutcomes : ModelsSettle(c, o)
    \/ \E p \in Providers, n \in ModelNames : selectModel(p, n)
    \/ \E m \in Providers : setModel(m)
    \/ EnterKey

SpecModels == InitModelsSpec /\ [][NextModels]_vars

\* The panel while the backend stays silent: every step the panel can take
\* without a response, taken fairly.  The code sets no timer and passes no
\* abort signal to fetch, so no step of the panel ends a pending call.
NextSilent ==
    \/ \E v \in InputTexts : SetInput(v)
    \/ SubmitButton
    \/ EnterKey
    \/ \E m \in Providers : setModel(m)
    \/ \E b \in BOOLEAN : setShowApiKeyManager(b)
    \/ \E p \in Prompts : setSystemPrompt(p)

SpecSilent == Init /\ [][NextSilent]_vars /\ WF_vars(NextSilent)

NextSearch ==
    \/ handleSearch(filters, limit, threshold)
    \/ \E form \in ResponseForms : SearchSettle(form)
    \/ SearchFail

SpecSearch == InitSearchSpec /\ [][NextSearch]_vars

\* The search page with its controls, over a fixed corpus.
InitPageSpec ==
    /\ InitChat /\ InitCache /\ InitSearch /\ InitPage /\ InitModels /\ InitHome
    /\ selectedPapers = <<PaperA>>
    /\ corpus = FixedCorpus

NextPage ==
    \/ \E v \in LimitMoves : setLimit(v)
    \/ \E sim \in SimilarityMoves : setThreshold(sim)
    \/ \E o \in FilterOutcomes : FiltersSettle(o)
    \/ handleSearch(filters, limit, threshold)
    \/ \E form \in ResponseForms : SearchSettle(form)
    \/ SearchFail

SpecPage == InitPageSpec /\ [][NextPage]_vars

\* The sign-in form has submitted any address, or none.
InitAuthSpec ==
    /\ InitChat /\ InitCache /\ InitSearch /\ InitPage /\ InitModels
    /\ selectedPapers = <<PaperA>>
    /\ corpus = FixedCorpus
    /\ credentials \in {NoCredentials} \cup { <<e>> : e \in Emails }
    /\ signIn = "submitted"
    /\ authUser = NoUser
    /\ InitBookmarks /\ InitDeepDive /\ InitPanel

NextAuth == authorize

SpecAuth == InitAuthSpec /\ [][NextAuth]_vars

\* The provider mounting over what an earlier visit stored, then the calls
\* the cards and the bookmarks page make.
InitBookmarksSpec ==
    /\ InitChat /\ InitCache /\ InitSearch /\ InitPage /\ InitModels /\ InitAuth
    /\ InitDeepDive /\ InitPanel
    /\ selectedPapers = <<PaperA>>
    /\ corpus = FixedCorpus
    /\ bookmarks = <<>>
    /\ isLoaded = FALSE
    /\ bookmarkStore \in {Absent} \cup { Stored(l) : l \in StoredBookmarks }
    /\ bookmarkOp = [op |-> "none", id |-> 0]

NextBookmarks ==
    \/ BookmarksMount
    \/ \E p \in CardPapers : addBookmark(p)
    \/ \E p \in CardPapers : removeBookmark(p.id)
    \/ \E p \in CardPapers : handleToggleBookmark(p)
    \/ clearBookmarks

SpecBookmarks == InitBookmarksSpec /\ [][NextBookmarks]_vars

\* The page opened over what an earlier visit stored; the user searches
\* with the limit slider at either end and edits the Deep Dive selection.
InitDeepDiveSpec ==
    /\ InitChat /\ InitCache /\ InitSearch /\ InitModels /\ InitAuth
    /\ InitBookmarks
    /\ showChat = FALSE
    /\ abandoned = {}
    /\ limit \in {MIN_LIMIT, MAX_LIMIT}
    /\ threshold = DEFAULT_THRESHOLD
    /\ filters = NoFilter
    /\ moved = {"limit"}
    /\ filterOptions = InitialFilterOptions
    /\ filtersFetch = PendingFetch
    /\ selectedPapers = <<PaperA>>
    /\ corpus = DeepDiveCorpus
    /\ deepDivePapers = <<>>
    /\ deepDiveStore \in StoredSelections
    /\ home = "closed"
    /\ pendingPapers = Absent
    /\ storedAtMount = Absent
    /\ edited = FALSE
    /\ pageLoads = 0
    /\ deepDiveOp = NoOp

NextDeepDive ==
    \/ HomeMount
    \/ HomeRender
    \/ ClosePage
    \/ home = "ready" /\ handleSearch(filters, limit, threshold)
    \/ \E form \in ResponseForms : home = "ready" /\ SearchSettle(form)
    \/ \E p \in Cards : toggleDeepDivePaper(p)
    \/ \E p \in Cards : DeepDiveButton(p)
    \/ addAllToDeepDive
    \/ \E b \in BOOLEAN : clearDeepDive(b)

SpecDeepDive == InitDeepDiveSpec /\ [][NextDeepDive]_vars

\* The page with a Deep Dive selection and the chat panel open on it: the
\* user chats, closes and reopens the panel, and searches; every chat call
\* is answered eventually.
InitPanelSpec ==
    /\ InitChat /\ InitCache /\ InitSearch /\ InitPage /\ InitModels /\ InitAuth
    /\ InitBookmarks /\ InitPanel
    /\ selectedPapers \in Selections
    /\ corpus = FixedCorpus
    /\ deepDivePapers = selectedPapers
    /\ deepDiveStore = [current |-> Stored(deepDivePapers), legacy |-> Absent]
    /\ home = "ready"
    /\ pendingPapers = Absent
    /\ storedAtMount = Absent
    /\ edited = TRUE
    /\ pageLoads = 1
    /\ deepDiveOp = NoOp

NextPanel ==
    \/ \E v \in InputTexts : showChat /\ SetInput(v)
    \/ showChat /\ SubmitButton
    \/ showChat /\ EnterKey
    \/ \E c \in chatCalls, o \in Outcomes : ChatSettle(c, o)
    \/ \E c \in abandoned, o \in Outcomes : AbandonedSettle(c, o)
    \/ CloseChat
    \/ OpenChat
    \/ handleSearch(filters, limit, threshold)
    \/ \E form \in ResponseForms : SearchSettle(form)

Answered ==
    /\ WF_vars(\E c \in chatCalls, o \in Outcomes : ChatSettle(c, o))
    /\ WF_vars(\E c \in abandoned, o \in Outcomes : AbandonedSettle(c, o))

SpecPanel == InitPanelSpec /\ [][NextPanel]_vars /\ Answered

(***************************************************************************)
(* Claims about the chat panel, checked under Spec.                        *)
(***************************************************************************)
UserEntries(msgs) == { i \in 1..Len(msgs) : msgs[i].role = "user" }
RepliesTo(msgs, k) ==
    { i \in 1..Len(msgs) : msgs[i].role = "assistant" /\ msgs[i].turn = k }
Failed(o) == o \in {"error_body", "http_error", "network_error"}

\* C1: at most one chat call of the panel is in flight at any time.
C1_AtMostOneChatCallInFlight == Cardinality(chatCalls) <= 1

\* C2: every reply stands directly after its question, so replies are
\* appended in submission order whatever order the calls complete in.
C2_RepliesInSubmissionOrder ==
    \A i \in 1..Len(messages) :
        messages[i].role = "assistant" =>
            /\ i > 1
            /\ messages[i - 1].role = "user"
            /\ messages[i - 1].turn = messages[i].turn

\* C3: every submitted question is in the transcript; a settled call has
\* exactly one assistant entry, a pending one none; the entry carries the
\* answer without the error flag exactly when the call succeeded with an
\* answer, and the error flag when the call failed or returned {error, status}.
C3_OneReplyPerQuestion ==
    \A k \in 1..Len(chatLog) :
        LET o == chatLog[k].outcome
            replies == RepliesTo(messages, k)
        IN /\ \E i \in UserEntries(messages) :
                  /\ messages[i].turn = k
                  /\ messages[i].content = chatLog[k].req.question
           /\ o = "pending" => replies = {}
           /\ o # "pending" => Cardinality(replies) = 1
           /\ \A i \in replies :
                  /\ o = "answer" => ~messages[i].isError /\ messages[i].content = <<"ANSWER">>
                  /\ Failed(o) => messages[i].isError

\* C4: the transcript before any step is a prefix of the transcript after it.
C4_TranscriptAppendOnly == [][IsPrefix(messages, messages')]_vars

\* C4 witness: a failed turn was appended after a successful one.
C4_FailureAfterSuccess ==
    \E i, j \in 1..Len(messages) :
        /\ i < j
        /\ messages[i].role = "assistant" /\ ~messages[i].isError
        /\ messages[i].content = <<"ANSWER">>
        /\ messages[j].isError

\* C5: a step issues a chat request only together with the user entry of an
\* accepted submission, and then exactly one; a step that settles a call,
\* failed or not, issues none.
C5_NoAutomaticRetry ==
    [][ /\ Len(chatLog') - Len(chatLog)
            = Cardinality(UserEntries(messages')) - Cardinality(UserEntries(messages))
        /\ Len(chatLog') - Len(chatLog) \in {0, 1}
        /\ (chatCalls' \ chatCalls) # {} => Len(chatLog') = Len(chatLog) + 1
        /\ Cardinality(chatCalls' \ chatCalls) <= 1 ]_vars

\* C5 witness: a request failed, nothing was sent again, and the user's
\* next submission issued the second request.
C5_ResubmittedAfterFailure ==
    /\ Len(chatLog) = 2
    /\ Failed(chatLog[1].outcome)
    /\ chatLog[2].outcome = "pending"
    /\ Cardinality(chatCalls) = 1

(***************************************************************************)
(* Claims about the session cache, checked under SpecCache.                *)
(***************************************************************************)
Expired(e, t) == e.state = "ready" /\ t >= e.expiresAt

ReuseOk(t) ==
    \A i \in (Len(turns[t].handles) + 1)..Len(turns'[t].handles) :
        LET h == turns'[t].handles[i]
            k == Key(turns'[t].provider, h.paper)
        IN h.how = "hit" =>
              /\ cache[k].state = "ready" /\ now < cache[k].expiresAt
              /\ h.handle = cache[k].handle /\ h.expiresAt = cache[k].expiresAt
              /\ cache'[k] = cache[k] /\ uploads'[k] = uploads[k]

\* Turn t stops at a paper in a step: the paper's entry is missing or
\* expired, one upload starts, and the turn holds no handle for the paper.
MissOk(t) ==
    LET tr == turns'[t]
        k  == Key(tr.provider, tr.papers[tr.pos])
    IN (tr.pc = "uploading" /\ tr # turns[t]) =>
          /\ cache[k].state = "absent" \/ Expired(cache[k], now)
          /\ uploads'[k] = uploads[k] + 1
          /\ Len(tr.handles) = tr.pos - 1

\* The upload of turn t returns in a step: the new handle and its expiry
\* replace the entry, and the turn goes on with the new handle.
UploadOk(t) ==
    LET tr == turns[t]
        k  == Key(tr.provider, tr.papers[tr.pos])
    IN (tr.pc = "uploading" /\ turns'[t] # tr) =>
          /\ cache'[k].state = "ready"
          /\ cache'[k].handle = cache[k].handle + 1
          /\ cache'[k].expiresAt = now + TTL
          /\ uploads'[k] = uploads[k]
          /\ turns'[t].handles[tr.pos].handle = cache'[k].handle
          /\ turns'[t].handles[tr.pos].how = "upload"

\* A turn awaiting the provider holds one handle per referenced paper.
Resolved(t) ==
    (turns[t].pc = "provider" /\ NativeIngestion(turns[t].provider)) =>
        /\ Len(turns[t].handles) = Len(turns[t].papers)
        /\ \A i \in 1..Len(turns[t].papers) :
               turns[t].handles[i].paper = turns[t].papers[i]

CacheContract == \A t \in TurnIds : ReuseOk(t) /\ MissOk(t) /\ UploadOk(t)

Candidates ==
    { i \in 1..Len(corpus) :
        /\ Matches(corpus[i], lastSearch.req.filters)
        /\ corpus[i].distance <= lastSearch.req.threshold }

Returned == { papers[i].id : i \in 1..Len(papers) }

\* C9: the list the page holds after an answered search is non-decreasing by
\* distance, and every distance in it is at most the request's threshold.
C9_ResultsSortedWithinThreshold ==
    lastSearch # NoSearch =>
        /\ \A i, j \in 1..Len(papers) :
               i < j => papers[i].distance <= papers[j].distance
        /\ \A i \in 1..Len(papers) :
               papers[i].distance <= lastSearch.req.threshold

\* C9 witness: the list holds items of two distances and a tie, taken from a
\* corpus that stores a farther item before a closer one, and a farther
\* item that satisfies the filter was cut by the threshold.
C9_RankedOutOfCorpusOrder ==
    /\ lastSearch # NoSearch
    /\ Len(papers) >= 3
    /\ papers[1].distance < papers[Len(papers)].distance
    /\ \E i \in 1..(Len(papers) - 1) : papers[i].distance = papers[i + 1].distance
    /\ \E i, j \in Returned : i < j /\ corpus[i].distance > corpus[j].distance
    /\ \E i \in 1..Len(corpus) :
           /\ Matches(corpus[i], lastSearch.req.filters)
           /\ corpus[i].distance > lastSearch.req.threshold

\* C10: the list holds min(limit, number of candidates) distinct candidates,
\* and no candidate left out is closer than one returned.
C10_CountIsMinOfLimitAndCandidates ==
    lastSearch # NoSearch =>
        /\ Len(papers) = Min(lastSearch.req.limit, Cardinality(Candidates))
        /\ Cardinality(Returned) = Len(papers)
        /\ Returned \subseteq Candidates
        /\ \A i \in 1..Len(papers) : papers[i] = corpus[papers[i].id]
        /\ \A c \in Candidates \ Returned, r \in Returned :
               corpus[r].distance <= corpus[c].distance

\* C10 witness: more candidates than the limit; the limit cut the list, and
\* the candidate left out is stored first in the corpus and is farther than
\* a returned one.
C10_LimitCutsTheFarthest ==
    /\ lastSearch # NoSearch
    /\ Cardinality(Candidates) > lastSearch.req.limit
    /\ Len(papers) = lastSearch.req.limit
    /\ 1 \in Candidates \ Returned
    /\ \E r \in Returned : corpus[r].distance < corpus[1].distance

\* The sub-values of the item's field that the user's filter selects.
Selected(item, field) ==
    { k \in 1..Len(item[field]) : item[field][k] \in filters[field] }

\* C11: the filter is a hard predicate: every returned item has, in every
\* constrained field, a selected value among its sub-values; when some
\* constrained field's selected values occur in no corpus item the list is
\* empty; when no field is constrained the filter excludes nothing.
C11_FilterIsHardPredicate ==
    lastSearch # NoSearch =>
        /\ \A i \in 1..Len(papers), field \in FilterFields :
               filters[field] = {} \/ Selected(papers[i], field) # {}
        /\ (\E field \in FilterFields :
               /\ filters[field] # {}
               /\ \A i \in 1..Len(corpus) : Selected(corpus[i], field) = {})
             => papers = <<>>
        /\ (\A field \in FilterFields : filters[field] = {})
             => Len(papers) = Min(limit,
                    Cardinality({ i \in 1..Len(corpus) : corpus[i].distance <= threshold }))

\* C11 witness (scenario B): two values selected in one field, one of them in
\* no corpus item; the list holds the items carrying the other among their
\* sub-values, and a closer item without it was left out.
C11_ScenarioB ==
    /\ lastSearch # NoSearch
    /\ filters.affiliation = {"Stanford", "CMU"}
    /\ papers # <<>>
    /\ \A i \in 1..Len(papers) : papers[i].affiliation = <<"Google", "Stanford">>
    /\ \E i \in 1..Len(corpus) :
           /\ corpus[i].affiliation = <<"MIT">>
           /\ corpus[i].distance < papers[1].distance

C14_FailedSearchShowsNothing ==
    lastOutcome = "failed" => papers = <<>>

\* C19: after an answered search the list shown is the list R the response
\* carried, in R's order, for the object form and for the bare array.
C19_BothResponseFormsAccepted ==
    lastSearch # NoSearch => papers = lastSearch.results

\* C19 witness: a bare array of several items was answered and is shown.
C19_BareArrayShown ==
    /\ lastSearch # NoSearch
    /\ lastSearch.form = "array"
    /\ lastOutcome = "ok"
    /\ Len(lastSearch.results) >= 2
    /\ papers = lastSearch.results

(***************************************************************************)
(* Claims about the search page's controls, checked under SpecPage.        *)
(***************************************************************************)
\* C13: whatever way the backend fails, getFilters resolves to the default
\* shape and does not reject.
C13_GetFiltersNeverRejects ==
    filtersFetch.outcome \in {"not_ok", "network_error", "bad_json"} =>
        /\ filtersFetch.state = "resolved"
        /\ filterOptions = DefaultFilterOptions

\* C17: a search sent before the similarity slider was moved carries the
\* threshold 0.40, and every search carries a threshold in [0, 1].
C17_ThresholdSent ==
    searchCall # NoCall =>
        /\ "threshold" \notin moved => searchCall.threshold = 40
        /\ searchCall.threshold >= 0 /\ searchCall.threshold <= 100

\* C18: a search sent before the limit slider was moved carries the limit 10,
\* and every search carries a limit in [5, 50].
C18_LimitSent ==
    searchCall # NoCall =>
        /\ "limit" \notin moved => searchCall.limit = 10
        /\ searchCall.limit >= 5 /\ searchCall.limit <= 50

\* C18 witness: the slider was moved to its upper end and a search was sent.
C18_SentAtUpperEnd ==
    /\ searchCall # NoCall
    /\ "limit" \in moved
    /\ searchCall.limit = 50

(***************************************************************************)
(* Claims about credentials and model discovery, checked under SpecModels. *)
(***************************************************************************)
\* C15: a step in which a discovery call ends with an error value or a thrown
\* error leaves the transcript, the chat calls in flight, both model lists
\* and both selected models as they were, and the loading flag false.
C15_FailedDiscoveryChangesNothing ==
    [][(\E i \in 1..Len(modelLog) :
            /\ modelLog[i].outcome = "pending"
            /\ modelLog'[i].outcome \in {"error_value", "throws"})
       => /\ messages' = messages
          /\ chatCalls' = chatCalls /\ chatLog' = chatLog /\ loading' = loading
          /\ geminiModels' = geminiModels /\ openaiModels' = openaiModels
          /\ selectedGeminiModel' = selectedGeminiModel
          /\ selectedOpenaiModel' = selectedOpenaiModel
          /\ loadingModels' = FALSE]_vars

\* C15 witness: a discovery succeeded, the next one (the key was changed to
\* an invalid one) returned an error value while a chat call was in flight.
C15_InvalidKeyAfterDiscovery ==
    /\ Len(modelLog) = 2
    /\ modelLog[1].call.provider = "gemini" /\ modelLog[1].outcome = "models"
    /\ modelLog[2].call.provider = "gemini" /\ modelLog[2].outcome = "error_value"
    /\ geminiModels = ModelList("gemini", "AIza-1")
    /\ selectedGeminiModel = "gemini-a"
    /\ chatCalls # {}
    /\ ~loadingModels

\* C20: a step that submits a question issues exactly one request; its
\* papers are the selection in order, each with its openreview_url or, when
\* that is empty, its paper_url; its question is the text submitted; its key
\* is the selected provider's key; it carries the selected provider's model
\* and not the other provider's.
C20_RequestComposition ==
    [][Len(chatLog') # Len(chatLog) =>
         LET req == chatLog'[Len(chatLog')].req
         IN /\ Len(chatLog') = Len(chatLog) + 1
            /\ Len(req.papers) = Len(selectedPapers)
            /\ \A i \in 1..Len(selectedPapers) :
                   /\ req.papers[i].title = selectedPapers[i].title
                   /\ req.papers[i].url =
                          IF selectedPapers[i].openreview_url # ""
                          THEN selectedPapers[i].openreview_url
                          ELSE selectedPapers[i].paper_url
            /\ req.question = input
            /\ req.model = model
            /\ req.api_key = IF apiKeys[model] # "" THEN apiKeys[model] ELSE UNDEFINED
            /\ model = "gemini" => /\ req.gemini_model = selectedGeminiModel
                                   /\ req.openai_model = UNDEFINED
            /\ model = "openai" => /\ req.openai_model = selectedOpenaiModel
                                   /\ req.gemini_model = UNDEFINED]_vars

\* C20 witness: both keys are stored and both model lists discovered; the
\* request sent to openai carries the openai key and model only, and the
\* second paper's paper_url.
C20_OpenAIRequestWithBothKeysStored ==
    /\ Len(chatLog) = 1
    /\ apiKeys.gemini = "AIza-1" /\ selectedGeminiModel = "gemini-a"
    /\ chatLog[1].req.model = "openai"
    /\ chatLog[1].req.api_key = "sk-1"
    /\ chatLog[1].req.openai_model = "gpt-a"
    /\ chatLog[1].req.gemini_model = UNDEFINED
    /\ Len(chatLog[1].req.papers) = 2
    /\ chatLog[1].req.papers[2].url = "puB"

(***************************************************************************)
(* Claim about timeouts, checked under SpecSilent.                         *)
(***************************************************************************)
\* C16: a chat call the backend never answers ends all the same: the panel
\* that is loading eventually stops loading.
C16_PendingChatCallEnds == loading ~> ~loading

(***************************************************************************)
(* C25.  Sign-in is granted only to allowed addresses: authorize returns a *)
(* user exactly when the submitted address is non-empty and either it has  *)
(* one "@" and the text after it is, case-insensitively, an allowed        *)
(* domain, or the whole address is, case-insensitively, an allowed         *)
(* address; every other input (no "@", more than one "@") gets null.       *)
(***************************************************************************)
AllowedAddress(e) ==
    /\ e # <<>>
    /\ \/ /\ Cardinality(AtPositions(e)) = 1
          /\ toLowerCase(SubSeq(e, KthAt(e, 1) + 1, Len(e))) \in ALLOWED_DOMAINS
       \/ toLowerCase(e) \in ALLOWED_EMAILS

C25_SignInOnlyForAllowedAddresses ==
    /\ signIn # "done" => authUser = NoUser
    /\ signIn = "done" =>
          ((authUser # NoUser) <=>
              (credentials # NoCredentials /\ AllowedAddress(credentials[1])))

(***************************************************************************)
(* C26.  addBookmark avoids duplicates and removeBookmark is exact: after  *)
(* every call no two bookmarks share an id; adding a paper whose id is     *)
(* bookmarked leaves the list unchanged; removeBookmark(id) takes out the  *)
(* one bookmark with that id and keeps the others in their order;          *)
(* isBookmarked(id) is true exactly for the ids in the list.               *)
(***************************************************************************)
NoTwoShareId(list) ==
    \A i, j \in 1..Len(list) : list[i].id = list[j].id => i = j

IdsOf(list) == { list[i].id : i \in 1..Len(list) }

\* list without its k-th element
Without(list, k) == SubSeq(list, 1, k - 1) \o SubSeq(list, k + 1, Len(list))

C26_BookmarksDuplicateFree ==
    [][ /\ NoTwoShareId(bookmarks')
        /\ (bookmarkOp'.op = "add" /\ bookmarkOp'.id \in IdsOf(bookmarks))
              => bookmarks' = bookmarks
        /\ (bookmarkOp'.op = "remove") =>
              \/ bookmarkOp'.id \notin IdsOf(bookmarks) /\ bookmarks' = bookmarks
              \/ \E k \in 1..Len(bookmarks) :
                     /\ bookmarks[k].id = bookmarkOp'.id
                     /\ bookmarks' = Without(bookmarks, k)
        /\ \A p \in CardPapers :
              isBookmarked(p.id)' <=> p.id \in IdsOf(bookmarks')
      ]_vars

\* A bookmarked paper came back from another search and was added again.
C26_AddedAgainWithOtherDistance ==
    /\ bookmarkOp = [op |-> "add", id |-> 1]
    /\ Len(bookmarks) = 2
    /\ bookmarks[1] = [id |-> 1, distance |-> 10]
    /\ bookmarks[2].id = 2

(***************************************************************************)
(* C21.  The Deep Dive selection never holds more than 25 papers, in every *)
(* state reachable by loading from storage (the legacy key 'deepDiveBasket'*)
(* included), toggle, add-all and clear.                                   *)
(***************************************************************************)
C21_AtMostMaxDeepDivePapers == Len(deepDivePapers) <= MAX_DEEP_DIVE_PAPERS

(***************************************************************************)
(* C27.  Toggle, add-all and clear keep a duplicate-free Deep Dive         *)
(* selection duplicate-free; add-all keeps the existing entries in their   *)
(* order and appends, in result order, only results whose id is not        *)
(* selected yet; toggling a selected paper removes it, also when the       *)
(* selection is full.                                                      *)
(***************************************************************************)
\* The position of paper p in the result list.
ResultPosition(p) == CHOOSE k \in 1..Len(papers) : papers[k] = p

C27_SelectionDuplicateFree ==
    [][ deepVars' # deepVars =>
        LET old   == deepDivePapers
            new   == deepDivePapers'
            op    == deepDiveOp'
            added == SubSeq(new, Len(old) + 1, Len(new))
        IN /\ (op.op \in {"toggle", "addAll", "clear"} /\ NoTwoShareId(old))
                 => NoTwoShareId(new)
           /\ op.op = "addAll" =>
                 /\ Len(new) >= Len(old)
                 /\ SubSeq(new, 1, Len(old)) = old
                 /\ \A i \in 1..Len(added) :
                       /\ added[i] \in Range(papers)
                       /\ added[i].id \notin IdsOf(old)
                 /\ \A i, j \in 1..Len(added) :
                       i < j => ResultPosition(added[i]) < ResultPosition(added[j])
           /\ (op.op = "toggle" /\ op.id \in IdsOf(old)) =>
                 /\ Len(new) = Len(old) - 1
                 /\ IdsOf(new) = IdsOf(old) \ {op.id}
      ]_vars

\* The last result was selected first; add-all then filled the selection
\* with the results before it.
C27_AddAllSkippedTheSelected ==
    /\ deepDiveOp.op = "addAll"
    /\ Len(deepDivePapers) = MAX_DEEP_DIVE_PAPERS
    /\ deepDivePapers[1].id = DeepDiveCorpusSize
    /\ deepDivePapers[2].id = 1

(***************************************************************************)
(* C28.  The persisted Deep Dive selection survives a page load: at every  *)
(* point from the mount on, storage holds the selection stored before the  *)
(* mount or a selection the user has produced since, never an empty list   *)
(* written before the stored selection was loaded.                         *)
(***************************************************************************)
SelectionAtMount == IF storedAtMount = Absent THEN <<>> ELSE storedAtMount[1]

C28_StoredSelectionSurvivesLoad ==
    home # "closed" =>
        /\ deepDiveStore.current # Absent
        /\ \/ deepDiveStore.current[1] = SelectionAtMount
           \/ edited /\ deepDiveStore.current[1] = deepDivePapers

(***************************************************************************)
(* C22.  The chat state machine of the panel always returns to a state     *)
(* that accepts a submission: when every started call completes, a mounted *)
(* panel does not stay loading; a call that succeeds leaves the panel idle *)
(* with the reply appended, a call that fails leaves it idle with an error *)
(* entry; and an idle panel accepts the next non-blank submission, which   *)
(* starts a new call.                                                      *)
(***************************************************************************)
\* The calls of the mounted panel that settle in this step.
SettlingNow ==
    { k \in 1..Len(chatLog) :
        /\ chatLog[k].outcome = "pending"
        /\ chatLog'[k].outcome # "pending"
        /\ chatLog[k].req \in chatCalls }

AcceptsSubmission ==
    (showChat /\ ~loading /\ Trim(input) # <<>> /\ Len(chatLog) < MaxTurns)
        => ENABLED (SubmitButton /\ Len(chatLog') = Len(chatLog) + 1)

C22_ReturnsToAcceptingState ==
    /\ (showChat /\ loading) ~> (~showChat \/ ~loading)
    /\ [][ \A k \in SettlingNow :
             LET o    == chatLog'[k].outcome
                 last == messages'[Len(messages')]
             IN /\ ~loading'
                /\ last.role = "assistant" /\ last.turn = k
                /\ o = "answer" => ~last.isError
                /\ Failed(o) => last.isError
          ]_vars
    /\ []AcceptsSubmission

(***************************************************************************)
(* C23.  Cancellation leaves no blocking residue: after the user closes    *)
(* the panel with a chat request in flight and reopens it, the panel is    *)
(* not loading unless a call of its own is in flight, so a non-blank       *)
(* submission is accepted and sent; the abandoned request, when it         *)
(* completes or fails, changes nothing of the new panel.                   *)
(***************************************************************************)
C23_NoResidueAfterCancellation ==
    /\ [](showChat /\ chatCalls = {} => ~loading)
    /\ [](showChat /\ chatCalls = {} /\ Trim(input) # <<>> /\ Len(chatLog) < MaxTurns
            => ENABLED (SubmitButton /\ Len(chatLog') = Len(chatLog) + 1))
    /\ [][ (\E c \in abandoned : c \notin abandoned') =>
             UNCHANGED <<messages, input, loading, showApiKeyManager, chatCalls>> ]_vars

\* The reopened panel has sent a request while the abandoned one is pending.
C23_SentWhileAbandonedPending ==
    /\ showChat
    /\ abandoned # {}
    /\ chatCalls # {}
    /\ \A c \in abandoned : \A d \in chatCalls : c.id < d.id

(***************************************************************************)
(* C24.  Chat activity has no side effects outside the chat state: a step  *)
(* that submits a question or appends a reply, successful or failed,       *)
(* leaves the corpus, the search results, the search filters and the Deep  *)
(* Dive selection unchanged.                                               *)
(***************************************************************************)
C24_ChatLeavesPageStateAlone ==
    [][ (chatLog' # chatLog \/ messages' # messages) =>
            UNCHANGED <<corpus, papers, filters, deepDivePapers, deepDiveStore>>
      ]_vars

\* A failed chat turn after a search has filled the result list.
C24_FailedTurnOverResults ==
    /\ papers # <<>>
    /\ deepDivePapers # <<>>
    /\ \E k \in 1..Len(chatLog) : chatLog[k].outcome = "http_error"
    /\ \E i \in 1..Len(messages) : messages[i].isError

(***************************************************************************)
(* C29.  The discovered model list follows the latest key: whenever a      *)
(* discovery call is in flight the models-loading flag is true, and once   *)
(* all started calls of a provider have completed, the provider's list is  *)
(* the one returned for the key entered last, whatever the order in which  *)
(* the responses arrived.                                                  *)
(***************************************************************************)
\* The discovery calls started for provider p, by their place in the log.
CallsOf(p) == { i \in 1..Len(modelLog) : modelLog[i].call.provider = p }

DiscoveredFor(p) == IF p = "gemini" THEN geminiModels ELSE openaiModels

C29_ListFollowsLatestKey ==
    /\ modelCalls # {} => loadingModels
    /\ \A p \in Providers :
          (/\ CallsOf(p) # {}
           /\ \A i \in CallsOf(p) : modelLog[i].outcome # "pending")
          => LET last == modelLog[Highest(CallsOf(p))]
             IN last.outcome = "models" =>
                    DiscoveredFor(p) = ModelList(p, last.call.api_key)

(***************************************************************************)
(* C30.  Whenever a provider's discovered model list is non-empty, the     *)
(* selected model name of that provider, the one sent as gemini_model or   *)
(* openai_model, is the name of a model in that list.                      *)
(***************************************************************************)
SelectedFor(p) == IF p = "gemini" THEN selectedGeminiModel ELSE selectedOpenaiModel

C30_SelectedModelIsDiscovered ==
    \A p \in Providers :
        DiscoveredFor(p) # <<>> =>
            \E i \in 1..Len(DiscoveredFor(p)) : DiscoveredFor(p)[i].name = SelectedFor(p)

=============================================================================
